---- MODULE Spec2Model ----
(***************************************************************************)
(* A model of the reverse-mode automatic differentiation engine of         *)
(* src/src/node.py: nodes (Input, Constant and the five binary operators),  *)
(* graph construction, forward(), backward() and clear_grad_recursive().    *)
(*                                                                         *)
(* Nodes live in an arena: node i is the i-th node constructed, and the    *)
(* node's fields are the i-th entries of kind, name, children, parents,    *)
(* value and grad.                                                         *)
(*                                                                         *)
(* Numbers.  Python's numbers are modelled exactly, as                     *)
(*      (n + a*ln 2 + b*ln 3) / d       written <<n, d, a, b>>             *)
(* with integers n, a, b, d > 0 and gcd(n, d, a, b) = 1.  The ln terms are  *)
(* what math.log returns in the derivative of a power.  Rounding of floats *)
(* is not modelled.  A result outside this form, or with a component above *)
(* MaxMag, is NaR ("not a representable number"); a call that produces one *)
(* is outside the bounds of the model.                                     *)
(***************************************************************************)
EXTENDS Integers, Sequences, FiniteSets, TLC

\* ------------------------------------------------------------------ bounds
MaxNodes == 3
MaxMag == 64

MaxCalls == 2
MaxPassCalls == 5
MaxFeedNodes == 4
MaxFeedCalls == 1
SmallNodes == 2
SmallCalls == 2
BuildNodes == 3
MaxAddCalls == 2
MaxArgs == 2
MaxProductCalls == 2

Names == {"x", "y"}
ConstVals == {2}
BinopKinds == {"Add", "Subtract", "Multiply", "Divide", "Power"}
PassKinds == {"Add", "Multiply"}
PassNames == {"x"}
FeedKinds == {"Add", "Divide"}
BuildKinds == {"Add"}
InfixOps == {"+", "-", "*", "/", "**"}

\* the feed_dicts forward is called with
Feeds == {<<>>, [n \in {"x"} |-> 0], [n \in {"x", "y"} |-> IF n = "x" THEN 3 ELSE 0]}

\* the graph of test_product, x * (x ** 2 + 1), node by node in the order the
\* test constructs it: what is constructed, and from which nodes
ProductShape ==
    << [k |-> "Input", l |-> 0, r |-> 0], [k |-> "Constant", l |-> 0, r |-> 0],
       [k |-> "Binop", l |-> 1, r |-> 2], [k |-> "Constant", l |-> 0, r |-> 0],
       [k |-> "Binop", l |-> 3, r |-> 4], [k |-> "Binop", l |-> 1, r |-> 5] >>
ProductKinds == {"Add", "Multiply", "Power"}
ProductConsts == {1, 2}
ProductFeeds == {[n \in {"x"} |-> 3], [n \in {"x"} |-> 0], [n \in {"x"} |-> -1]}

\* the feed_dicts of the longer sequences of calls
PassFeeds == {[n \in {"x"} |-> 0], [n \in {"x", "y"} |-> IF n = "x" THEN 3 ELSE 0]}

\* ----------------------------------------------------------------- numbers
None == <<>>
NaR == <<0, 0, 0, 0>>

Abs(a) == IF a < 0 THEN -a ELSE a
Min(a, b) == IF a < b THEN a ELSE b

RECURSIVE Gcd(_, _)
Gcd(a, b) == IF b = 0 THEN a ELSE Gcd(b, a % b)

IsNum(v) == Len(v) = 4 /\ v[2] > 0
Pure(v) == v[3] = 0 /\ v[4] = 0

\* r, if no component of it is above MaxMag
InRange(r) ==
    IF Abs(r[1]) > MaxMag \/ r[2] > MaxMag \/ Abs(r[3]) > MaxMag \/ Abs(r[4]) > MaxMag
    THEN NaR ELSE r

\* (n + a ln2 + b ln3) / d with every component multiplied by the sign s and
\* divided by g
Reduce(n, d, a, b, s, g) ==
    InRange(<<(s * n) \div g, (s * d) \div g, (s * a) \div g, (s * b) \div g>>)

\* the number (n + a ln2 + b ln3) / d in lowest terms, d > 0
Mk(n, d, a, b) ==
    IF d = 0 THEN NaR
    ELSE Reduce(n, d, a, b, IF d < 0 THEN -1 ELSE 1,
                Gcd(Gcd(Gcd(Abs(d), Abs(n)), Abs(a)), Abs(b)))

I(k) == Mk(k, 1, 0, 0)

IsZero(v) == IsNum(v) /\ Pure(v) /\ v[1] = 0
IsNeg(v) == IsNum(v) /\ Pure(v) /\ v[1] < 0
IsPos(v) == IsNum(v) /\ Pure(v) /\ v[1] > 0

NAdd(x, y) ==
    IF ~IsNum(x) \/ ~IsNum(y) THEN NaR
    ELSE Mk(x[1] * y[2] + y[1] * x[2], x[2] * y[2],
            x[3] * y[2] + y[3] * x[2], x[4] * y[2] + y[4] * x[2])

NNeg(x) == IF ~IsNum(x) THEN NaR ELSE Mk(-x[1], x[2], -x[3], -x[4])

NSub(x, y) == NAdd(x, NNeg(y))

NMul(x, y) ==
    IF ~IsNum(x) \/ ~IsNum(y) THEN NaR
    ELSE IF Pure(x) THEN Mk(x[1] * y[1], x[2] * y[2], x[1] * y[3], x[1] * y[4])
    ELSE IF Pure(y) THEN Mk(x[1] * y[1], x[2] * y[2], x[3] * y[1], x[4] * y[1])
    ELSE NaR

\* x / y for y # 0
NDiv(x, y) ==
    IF ~IsNum(x) \/ ~IsNum(y) \/ ~Pure(y) \/ y[1] = 0 THEN NaR
    ELSE Mk(x[1] * y[2], x[2] * y[1], x[3] * y[2], x[4] * y[2])

\* x ** e for an integer e >= 0, by squaring
RECURSIVE IPow(_, _)
Square(x, e, h) == IF e % 2 = 0 THEN NMul(h, h) ELSE NMul(x, NMul(h, h))
IPow(x, e) == IF e = 0 THEN I(1) ELSE Square(x, e, IPow(x, e \div 2))

\* x ** y for a rational x and an integer y (x # 0 when y < 0)
NPow(x, y) ==
    IF ~IsNum(x) \/ ~IsNum(y) \/ ~Pure(x) \/ ~Pure(y) \/ y[2] # 1 \/ Abs(y[1]) > MaxMag THEN NaR
    ELSE IF y[1] >= 0 THEN IPow(x, y[1])
    ELSE IF x[1] = 0 THEN NaR
    ELSE IPow(Mk(x[2], x[1], 0, 0), -y[1])

\* the exponent of prime p in k >= 1, and what is left of k
RECURSIVE ExpOf(_, _)
ExpOf(p, k) == IF k % p = 0 THEN 1 + ExpOf(p, k \div p) ELSE 0
RECURSIVE Strip(_, _)
Strip(p, k) == IF k % p = 0 THEN Strip(p, k \div p) ELSE k

\* math.log(x) for x > 0
NLog(x) ==
    IF ~IsPos(x) THEN NaR
    ELSE IF Strip(3, Strip(2, x[1])) # 1 \/ Strip(3, Strip(2, x[2])) # 1 THEN NaR
    ELSE Mk(0, 1, ExpOf(2, x[1]) - ExpOf(2, x[2]), ExpOf(3, x[1]) - ExpOf(3, x[2]))

\* ------------------------------------------------------------------- state
VARIABLES
    kind,       \* kind[i]: the class of node i
    name,       \* name[i]: InputNode.name ("" for the other classes)
    children,   \* children[i]: Node.children, a sequence of nodes
    parents,    \* parents[i]: Node.parents, a sequence of nodes
    value,      \* value[i]: Node.value, None or a number
    grad,       \* grad[i]: Node.grad, None or a number
    last,       \* the last call made: what was called, on what, and how it ended
    memo,       \* the grads the last backward pass left, kept while only
                \* clear_grad_recursive and backward on the same node follow it
    calls       \* the number of forward, backward and clear calls made so far

vars == <<kind, name, children, parents, value, grad, last, memo, calls>>

Nodes == 1..Len(kind)

NoFeed == <<>>

\* last.fresh: the call was a backward that found the grad of every node
\* reachable from its node unset; last.at: the node whose forward or backward
\* raised last.exc (0 when none did); last.again: the call before it was the
\* same call, on the same node (and with the same feed_dict)
Call(op, node, feed, exc, ret, trace, fresh) ==
    [op |-> op, node |-> node, feed |-> feed, exc |-> exc, ret |-> ret, trace |-> trace,
     fresh |-> fresh, at |-> 0, again |-> FALSE]

\* memo.ok, memo.fresh, memo.g: how the pass on memo.node ended, whether it
\* found all grads unset, and the grads it left; memo.rerun: the node has since
\* been cleared and passed again
NoMemo == [node |-> 0, ok |-> FALSE, fresh |-> FALSE, g |-> <<>>, rerun |-> FALSE]

\* the nodes reachable from n along children, n included
RECURSIVE Desc(_)
Desc(n) == {n} \cup UNION {Desc(children[n][i]) : i \in 1..Len(children[n])}

\* ------------------------------------------------- evaluate and derivatives
\* the evaluate_ function each BinopNode subclass passes to BinopNode.__init__
BinopEvaluate(k, x, y) ==
    CASE k = "Add" -> [exc |-> "none", val |-> NAdd(x, y)]
      [] k = "Subtract" -> [exc |-> "none", val |-> NSub(x, y)]
      [] k = "Multiply" -> [exc |-> "none", val |-> NMul(x, y)]
      [] k = "Divide" ->
            IF IsZero(y) THEN [exc |-> "ZeroDivisionError", val |-> None]
            ELSE [exc |-> "none", val |-> NDiv(x, y)]
      [] k = "Power" ->
            IF IsZero(x) /\ IsNeg(y) THEN [exc |-> "ZeroDivisionError", val |-> None]
            ELSE [exc |-> "none", val |-> NPow(x, y)]

\* derivatives_ with 0 for the derivative of a power by its exponent when
\* the base has no logarithm
BinopDerivativesNoLog(k, x, y) ==
    CASE k = "Add" -> [exc |-> "none", ds |-> <<I(1), I(1)>>]
      [] k = "Subtract" -> [exc |-> "none", ds |-> <<I(1), I(-1)>>]
      [] k = "Multiply" -> [exc |-> "none", ds |-> <<y, x>>]
      [] k = "Divide" ->
            IF IsZero(y) THEN [exc |-> "ZeroDivisionError", ds |-> <<>>]
            ELSE [exc |-> "none",
                  ds |-> <<NDiv(I(1), y), NDiv(NNeg(x), NPow(y, I(2)))>>]
      [] k = "Power" ->
            IF IsZero(x) /\ IsNeg(NSub(y, I(1)))
            THEN [exc |-> "ZeroDivisionError", ds |-> <<>>]
            ELSE IF IsZero(x) \/ IsNeg(x)
            THEN [exc |-> "none", ds |-> <<NMul(y, NPow(x, NSub(y, I(1)))), I(0)>>]
            ELSE [exc |-> "none",
                  ds |-> <<NMul(y, NPow(x, NSub(y, I(1)))), NMul(NPow(x, y), NLog(x))>>]

\* the derivatives_ function each BinopNode subclass passes to BinopNode.__init__
BinopDerivatives(k, x, y) ==
    CASE k = "Add" -> [exc |-> "none", ds |-> <<I(1), I(1)>>]
      [] k = "Subtract" -> [exc |-> "none", ds |-> <<I(1), I(-1)>>]
      [] k = "Multiply" -> [exc |-> "none", ds |-> <<y, x>>]
      [] k = "Divide" ->
            IF IsZero(y) THEN [exc |-> "ZeroDivisionError", ds |-> <<>>]
            ELSE [exc |-> "none",
                  ds |-> <<NDiv(I(1), y), NDiv(NNeg(x), NPow(y, I(2)))>>]
      [] k = "Power" ->
            IF IsZero(x) /\ IsNeg(NSub(y, I(1)))
            THEN [exc |-> "ZeroDivisionError", ds |-> <<>>]
            ELSE IF IsZero(x) \/ IsNeg(x) THEN [exc |-> "ValueError", ds |-> <<>>]
            ELSE [exc |-> "none",
                  ds |-> <<NMul(y, NPow(x, NSub(y, I(1)))), NMul(NPow(x, y), NLog(x))>>]

\* evaluate with the child values taken in the wrong order
EvaluateSwapped(n, cv, val) ==
    IF kind[n] = "Constant" THEN [exc |-> "none", val |-> val[n]]
    ELSE BinopEvaluate(kind[n], cv[2], cv[1])

\* node.evaluate(child_values), with val the current values of the nodes
Evaluate(n, cv, val) ==
    IF kind[n] = "Constant" THEN [exc |-> "none", val |-> val[n]]
    ELSE BinopEvaluate(kind[n], cv[1], cv[2])

\* node.derivatives(child_values)
Derivatives(n, cv) ==
    IF kind[n] \in {"Input", "Constant"} THEN [exc |-> "none", ds |-> <<I(0)>>]
    ELSE BinopDerivatives(kind[n], cv[1], cv[2])

\* ------------------------------------------------------------------ forward
\* The state of a forward pass: val, the values of all nodes; exc, the
\* exception raised ("none" while it runs); at, the node whose forward raised
\* it; ret, the value last returned;
\* cv, the child values collected so far; trace, the nodes whose value was
\* assigned, in order.
RECURSIVE Fwd(_, _, _)
RECURSIVE FwdChildren(_, _, _, _)

\* list(map(fwd, cs)) from the i-th child on
FwdChildren(cs, i, feed, st) ==
    IF i > Len(cs) \/ st.exc # "none" THEN st
    ELSE LET r == Fwd(cs[i], feed, st)
         IN FwdChildren(cs, i + 1, feed, [r EXCEPT !.cv = Append(st.cv, r.ret)])

\* an InputNode.forward that takes 0 for a name the feed lacks
InputForwardDefault(n, feed, st) ==
    LET v == IF name[n] \in DOMAIN feed THEN I(feed[name[n]]) ELSE I(0)
    IN [st EXCEPT !.val[n] = v, !.ret = v, !.trace = Append(st.trace, n)]

\* InputNode.forward(feed_dict)
InputForward(n, feed, st) ==
    IF name[n] \notin DOMAIN feed
    THEN [st EXCEPT !.exc = "KeyError", !.at = n, !.ret = None]
    ELSE [st EXCEPT !.val[n] = I(feed[name[n]]), !.ret = I(feed[name[n]]),
                    !.trace = Append(st.trace, n)]

\* a Node.forward that unsets the value of a node whose evaluate raises
NodeForwardClear(n, feed, st) ==
    LET c == FwdChildren(children[n], 1, feed, [st EXCEPT !.cv = <<>>])
    IN IF c.exc # "none" THEN [c EXCEPT !.cv = st.cv, !.ret = None]
       ELSE LET e == Evaluate(n, c.cv, c.val)
            IN IF e.exc # "none"
               THEN [c EXCEPT !.exc = e.exc, !.at = n, !.cv = st.cv, !.ret = None,
                              !.val[n] = None]
               ELSE [c EXCEPT !.val[n] = e.val, !.ret = e.val, !.cv = st.cv,
                              !.trace = Append(c.trace, n)]

\* a Node.forward that adds what evaluate returns to a value already set
NodeForwardAccumulate(n, feed, st) ==
    LET c == FwdChildren(children[n], 1, feed, [st EXCEPT !.cv = <<>>])
    IN IF c.exc # "none" THEN [c EXCEPT !.cv = st.cv, !.ret = None]
       ELSE LET e == Evaluate(n, c.cv, c.val)
            IN IF e.exc # "none"
               THEN [c EXCEPT !.exc = e.exc, !.at = n, !.cv = st.cv, !.ret = None]
               ELSE IF c.val[n] = None \/ kind[n] = "Constant"
               THEN [c EXCEPT !.val[n] = e.val, !.ret = e.val, !.cv = st.cv,
                              !.trace = Append(c.trace, n)]
               ELSE [c EXCEPT !.val[n] = NAdd(c.val[n], e.val),
                              !.ret = NAdd(c.val[n], e.val), !.cv = st.cv,
                              !.trace = Append(c.trace, n)]

\* Node.forward(feed_dict)
NodeForward(n, feed, st) ==
    LET c == FwdChildren(children[n], 1, feed, [st EXCEPT !.cv = <<>>])
    IN IF c.exc # "none" THEN [c EXCEPT !.cv = st.cv, !.ret = None]
       ELSE LET e == Evaluate(n, c.cv, c.val)
            IN IF e.exc # "none"
               THEN [c EXCEPT !.exc = e.exc, !.at = n, !.cv = st.cv, !.ret = None]
               ELSE [c EXCEPT !.val[n] = e.val, !.ret = e.val, !.cv = st.cv,
                              !.trace = Append(c.trace, n)]

Fwd(n, feed, st) ==
    IF kind[n] = "Input" THEN InputForward(n, feed, st) ELSE NodeForward(n, feed, st)

ForwardResult(n, feed) ==
    Fwd(n, feed, [val |-> value, exc |-> "none", at |-> 0, ret |-> None, cv |-> <<>>,
                  trace |-> <<>>])

\* ----------------------------------------------------------------- backward
\* The state of a backward pass: g, the grads of all nodes; exc and at, the
\* exception raised and the node whose backward raised it; trace, the events
\* in order: <<"visit", n>> when backward is called on node n, <<"push", n>>
\* when n starts to push its grad to its children (line 56), <<"add", n, i>>
\* when n adds to the grad of its i-th child.
RECURSIVE Bwd(_, _)
RECURSIVE BwdChildren(_, _, _)

\* the loop of lines 57-60 with the grad of the child assigned, not added to
RECURSIVE PushLoopAssign(_, _, _, _)
PushLoopAssign(n, ds, i, st) ==
    IF i > Min(Len(children[n]), Len(ds)) THEN st
    ELSE PushLoopAssign(n, ds, i + 1,
            [st EXCEPT !.g[children[n][i]] = NMul(st.g[n], ds[i]),
                       !.trace = Append(st.trace, <<"add", n, i>>)])

\* the loop of lines 57-60 leaving alone a grad that is already set
RECURSIVE PushLoopKeep(_, _, _, _)
PushLoopKeep(n, ds, i, st) ==
    IF i > Min(Len(children[n]), Len(ds)) THEN st
    ELSE PushLoopKeep(n, ds, i + 1,
            [st EXCEPT !.g[children[n][i]] =
                            IF st.g[children[n][i]] = None THEN NMul(st.g[n], ds[i])
                            ELSE st.g[children[n][i]],
                       !.trace = Append(st.trace, <<"add", n, i>>)])

\* the loop of lines 57-60 from the i-th pair of zip(children, derivatives) on
RECURSIVE PushLoop(_, _, _, _)
PushLoop(n, ds, i, st) ==
    IF i > Min(Len(children[n]), Len(ds)) THEN st
    ELSE LET c == children[n][i]
             g0 == IF st.g[c] = None THEN I(0) ELSE st.g[c]
         IN PushLoop(n, ds, i + 1,
                [st EXCEPT !.g[c] = NAdd(g0, NMul(st.g[n], ds[i])),
                           !.trace = Append(st.trace, <<"add", n, i>>)])

\* the loop of lines 61-62 stopping after the first child
RECURSIVE BwdChildrenFirst(_, _, _)
BwdChildrenFirst(cs, i, st) ==
    IF i > Min(1, Len(cs)) \/ st.exc # "none" THEN st
    ELSE BwdChildrenFirst(cs, i + 1,
            Bwd(cs[i], [st EXCEPT !.trace = Append(st.trace, <<"visit", cs[i]>>)]))

\* the loop of lines 61-62 from the i-th child on
BwdChildren(cs, i, st) ==
    IF i > Len(cs) \/ st.exc # "none" THEN st
    ELSE BwdChildren(cs, i + 1,
            Bwd(cs[i], [st EXCEPT !.trace = Append(st.trace, <<"visit", cs[i]>>)]))

\* a backward without the check of lines 49-50
BwdUnchecked(n, st) ==
    LET s1 == IF st.g[n] = None THEN [st EXCEPT !.g[n] = I(1)] ELSE st
        d == Derivatives(n, [i \in 1..Len(children[n]) |-> value[children[n][i]]])
    IN IF d.exc # "none" THEN [s1 EXCEPT !.exc = d.exc, !.at = n]
       ELSE BwdChildren(children[n], 1,
               PushLoop(n, d.ds, 1,
                   [s1 EXCEPT !.trace = Append(s1.trace, <<"push", n>>)]))

\* Node.backward()
Bwd(n, st) ==
    IF value[n] = None THEN [st EXCEPT !.exc = "RuntimeError", !.at = n]
    ELSE LET s1 == IF st.g[n] = None THEN [st EXCEPT !.g[n] = I(1)] ELSE st
             d == Derivatives(n, [i \in 1..Len(children[n]) |-> value[children[n][i]]])
         IN IF d.exc # "none" THEN [s1 EXCEPT !.exc = d.exc, !.at = n]
            ELSE BwdChildren(children[n], 1,
                    PushLoop(n, d.ds, 1,
                        [s1 EXCEPT !.trace = Append(s1.trace, <<"push", n>>)]))

BackwardResult(n) ==
    Bwd(n, [g |-> grad, exc |-> "none", at |-> 0, trace |-> <<<<"visit", n>>>>])

\* ---------------------------------------------------------------- clearing
\* Node.clear_grad_recursive(): g, the grads; trace, the nodes visited in order
RECURSIVE ClearRec(_, _)
RECURSIVE ClearChildren(_, _, _)

\* the loop of lines 72-73 stopping after the first child
RECURSIVE ClearChildrenFirst(_, _, _)
ClearChildrenFirst(cs, i, st) ==
    IF i > Min(1, Len(cs)) THEN st ELSE ClearChildrenFirst(cs, i + 1, ClearRec(cs[i], st))

\* the loop of lines 72-73 from the i-th child on
ClearChildren(cs, i, st) ==
    IF i > Len(cs) THEN st ELSE ClearChildren(cs, i + 1, ClearRec(cs[i], st))

\* a clear_grad_recursive that goes through the children twice
ClearRecTwice(n, st) ==
    ClearChildren(children[n], 1,
        ClearChildren(children[n], 1,
            [st EXCEPT !.g[n] = None, !.trace = Append(st.trace, n)]))

\* clear_grad() alone, with no recursion into the children
ClearRecShallow(n, st) ==
    [st EXCEPT !.g[n] = None, !.trace = Append(st.trace, n)]

ClearRec(n, st) ==
    ClearChildren(children[n], 1,
        [st EXCEPT !.g[n] = None, !.trace = Append(st.trace, n)])

ClearResult(n) == ClearRec(n, [g |-> grad, trace |-> <<>>])

\* no value or grad is outside the numbers the model represents
Representable(vs) == \A i \in 1..Len(vs) : vs[i] # NaR

\* ------------------------------------------------------------- construction
\* Node.__init__ followed by the subclass's own assignments
NewNode(k, nm, v) ==
    /\ kind' = Append(kind, k)
    /\ name' = Append(name, nm)
    /\ children' = Append(children, <<>>)
    /\ parents' = Append(parents, <<>>)
    /\ value' = Append(value, v)
    /\ grad' = Append(grad, None)

\* an add_child that registers self in child.parents only when it is not
\* there yet
RECURSIVE AddChildrenOnce(_, _, _, _)
AddChildrenOnce(self, cs, i, st) ==
    IF i > Len(cs) THEN st
    ELSE AddChildrenOnce(self, cs, i + 1,
            [st EXCEPT !.children[self] = Append(st.children[self], cs[i]),
                       !.parents[cs[i]] =
                            IF \E j \in 1..Len(st.parents[cs[i]]) : st.parents[cs[i]][j] = self
                            THEN st.parents[cs[i]]
                            ELSE Append(st.parents[cs[i]], self)])

\* self.add_child(c1, c2) for the node being constructed (node Len(kind) + 1)
RECURSIVE AddChildren(_, _, _, _)
AddChildren(self, cs, i, st) ==
    IF i > Len(cs) THEN st
    ELSE AddChildren(self, cs, i + 1,
            [st EXCEPT !.children[self] = Append(st.children[self], cs[i]),
                       !.parents[cs[i]] = Append(st.parents[cs[i]], self)])

\* BinopNode.__init__(left, right, evaluate, derivatives)
BinopInit(k, l, r) ==
    LET self == Len(kind) + 1
        st == AddChildren(self, <<l, r>>, 1,
                [children |-> Append(children, <<>>), parents |-> Append(parents, <<>>)])
    IN /\ kind' = Append(kind, k)
       /\ name' = Append(name, "")
       /\ children' = st.children
       /\ parents' = st.parents
       /\ value' = Append(value, None)
       /\ grad' = Append(grad, None)

\* the class an infix operator constructs; Node defines __add__, __mul__,
\* __truediv__ and __pow__, and no __sub__ (the method is named __sub)
InfixKind(op) ==
    CASE op = "+" -> "Add"
      [] op = "*" -> "Multiply"
      [] op = "/" -> "Divide"
      [] op = "**" -> "Power"
      [] OTHER -> "unsupported"

\* ------------------------------------------------------------------ actions
Init ==
    /\ kind = <<>>
    /\ name = <<>>
    /\ children = <<>>
    /\ parents = <<>>
    /\ value = <<>>
    /\ grad = <<>>
    /\ last = Call("init", 0, NoFeed, "none", None, <<>>, FALSE)
    /\ memo = NoMemo
    /\ calls = 0

\* InputNode(nm)
NewInput(nm) ==
    /\ NewNode("Input", nm, None)
    /\ last' = Call("new", Len(kind) + 1, NoFeed, "none", None, <<>>, FALSE)
    /\ memo' = NoMemo
    /\ UNCHANGED calls

\* ConstantNode(v)
NewConstant(v) ==
    /\ NewNode("Constant", "", I(v))
    /\ last' = Call("new", Len(kind) + 1, NoFeed, "none", None, <<>>, FALSE)
    /\ memo' = NoMemo
    /\ UNCHANGED calls

\* AddNode(l, r), SubtractNode(l, r), MultiplyNode(l, r), DivideNode(l, r),
\* ExponentiateNode(l, r)
NewBinop(k, l, r) ==
    /\ BinopInit(k, l, r)
    /\ last' = Call("new", Len(kind) + 1, NoFeed, "none", None, <<l, r>>, FALSE)
    /\ memo' = NoMemo
    /\ UNCHANGED calls

\* l op r, for the infix operator op
Infix(op, l, r) ==
    /\ IF InfixKind(op) = "unsupported"
       THEN /\ UNCHANGED <<kind, name, children, parents, value, grad>>
            /\ last' = Call("infix", 0, NoFeed, "TypeError", None, <<op, l, r>>, FALSE)
       ELSE /\ BinopInit(InfixKind(op), l, r)
            /\ last' = Call("infix", Len(kind) + 1, NoFeed, "none", None, <<op, l, r>>, FALSE)
    /\ memo' = NoMemo
    /\ UNCHANGED calls

\* a forward that also unsets the grad of every node it reaches
ForwardClearing(n, feed) ==
    \E r \in {ForwardResult(n, feed)} :
       /\ Representable(r.val)
       /\ value' = r.val
       /\ grad' = [m \in Nodes |-> IF m \in Desc(n) THEN None ELSE grad[m]]
       /\ last' = [Call("forward", n, feed, r.exc, r.ret, r.trace, FALSE)
                   EXCEPT !.at = r.at,
                          !.again = last.op = "forward" /\ last.node = n /\ last.feed = feed]
       /\ memo' = NoMemo
       /\ calls' = calls + 1
       /\ UNCHANGED <<kind, name, children, parents>>

\* n.forward(feed)
Forward(n, feed) ==
    \E r \in {ForwardResult(n, feed)} :
       /\ Representable(r.val)
       /\ value' = r.val
       /\ last' = [Call("forward", n, feed, r.exc, r.ret, r.trace, FALSE)
                   EXCEPT !.at = r.at,
                          !.again = last.op = "forward" /\ last.node = n /\ last.feed = feed]
       /\ memo' = NoMemo
       /\ calls' = calls + 1
       /\ UNCHANGED <<kind, name, children, parents, grad>>

\* n.backward()
Backward(n) ==
    \E r \in {BackwardResult(n)} :
    LET fresh == \A m \in Desc(n) : grad[m] = None
        rerun == last.op = "clear" /\ last.node = n /\ memo.node = n /\ memo.ok
    IN /\ Representable(r.g)
       /\ grad' = r.g
       /\ last' = [Call("backward", n, NoFeed, r.exc,
                        IF r.exc = "none" THEN r.g[n] ELSE None, r.trace, fresh)
                   EXCEPT !.at = r.at, !.again = last.op = "backward" /\ last.node = n]
       /\ memo' = IF rerun THEN [memo EXCEPT !.rerun = TRUE]
                  ELSE [node |-> n, ok |-> r.exc = "none", fresh |-> fresh, g |-> r.g,
                        rerun |-> FALSE]
       /\ calls' = calls + 1
       /\ UNCHANGED <<kind, name, children, parents, value>>

\* n.clear_grad_recursive()
ClearGradRecursive(n) ==
    \E r \in {ClearResult(n)} :
       /\ grad' = r.g
       /\ last' = [Call("clear", n, NoFeed, "none", None, r.trace, FALSE)
                   EXCEPT !.again = last.op = "clear" /\ last.node = n]
       /\ memo' = IF last.op = "backward" /\ last.node = n /\ ~memo.rerun THEN memo ELSE NoMemo
       /\ calls' = calls + 1
       /\ UNCHANGED <<kind, name, children, parents, value>>

\* p.add_child(*cs) called on a node that exists
AddChild(p, cs) ==
    LET st == AddChildren(p, cs, 1, [children |-> children, parents |-> parents])
    IN /\ children' = st.children
       /\ parents' = st.parents
       /\ last' = Call("add_child", p, NoFeed, "none", None, cs, FALSE)
       /\ memo' = NoMemo
       /\ calls' = calls + 1
       /\ UNCHANGED <<kind, name, value, grad>>

\* the argument lists add_child is called with
ArgLists == UNION {[1..k -> Nodes] : k \in 0..MaxArgs}

CanBuild == Len(kind) < MaxNodes

Next ==
    \/ \E nm \in Names : CanBuild /\ NewInput(nm)
    \/ \E v \in ConstVals : CanBuild /\ NewConstant(v)
    \/ \E k \in BinopKinds, l \in Nodes, r \in Nodes : CanBuild /\ NewBinop(k, l, r)
    \/ \E op \in InfixOps, l \in Nodes, r \in Nodes : CanBuild /\ Infix(op, l, r)
    \/ \E n \in Nodes, feed \in Feeds : calls < MaxCalls /\ Forward(n, feed)
    \/ \E n \in Nodes : calls < MaxCalls /\ Backward(n)
    \/ \E n \in Nodes : calls < MaxCalls /\ ClearGradRecursive(n)

Spec == Init /\ [][Next]_vars

\* The same on the smallest graphs.
NextSmall ==
    \/ \E nm \in Names : Len(kind) < SmallNodes /\ NewInput(nm)
    \/ \E v \in ConstVals : Len(kind) < SmallNodes /\ NewConstant(v)
    \/ \E k \in BinopKinds, l \in Nodes, r \in Nodes :
            Len(kind) < SmallNodes /\ NewBinop(k, l, r)
    \/ \E op \in InfixOps, l \in Nodes, r \in Nodes :
            Len(kind) < SmallNodes /\ Infix(op, l, r)
    \/ \E n \in Nodes, feed \in Feeds : calls < SmallCalls /\ Forward(n, feed)
    \/ \E n \in Nodes : calls < SmallCalls /\ Backward(n)
    \/ \E n \in Nodes : calls < SmallCalls /\ ClearGradRecursive(n)

SpecSmall == Init /\ [][NextSmall]_vars

\* Longer sequences of calls, on graphs over one input name and two kinds of
\* operator.
NextPass ==
    \/ \E nm \in PassNames : CanBuild /\ NewInput(nm)
    \/ \E v \in ConstVals : CanBuild /\ NewConstant(v)
    \/ \E k \in PassKinds, l \in Nodes, r \in Nodes : CanBuild /\ NewBinop(k, l, r)
    \/ \E n \in Nodes, feed \in PassFeeds : calls < MaxPassCalls /\ Forward(n, feed)
    \/ \E n \in Nodes : calls < MaxPassCalls /\ Backward(n)
    \/ \E n \in Nodes : calls < MaxPassCalls /\ ClearGradRecursive(n)

SpecPass == Init /\ [][NextPass]_vars

\* Construction alone, with add_child also called on nodes that exist.
NextBuild ==
    \/ \E nm \in PassNames : Len(kind) < BuildNodes /\ NewInput(nm)
    \/ \E v \in ConstVals : Len(kind) < BuildNodes /\ NewConstant(v)
    \/ \E k \in BuildKinds, l \in Nodes, r \in Nodes :
            Len(kind) < BuildNodes /\ NewBinop(k, l, r)
    \/ \E q \in Nodes, cs \in ArgLists : calls < MaxAddCalls /\ AddChild(q, cs)

SpecBuild == Init /\ [][NextBuild]_vars

\* The runs of test_product with the operators **, + and * in any of the three
\* places, any of the constants and inputs, and calls in any order on any node
\* of the finished graph.
NextProduct ==
    \/ \E nm \in PassNames :
            /\ Len(kind) < Len(ProductShape)
            /\ ProductShape[Len(kind) + 1].k = "Input"
            /\ NewInput(nm)
    \/ \E v \in ProductConsts :
            /\ Len(kind) < Len(ProductShape)
            /\ ProductShape[Len(kind) + 1].k = "Constant"
            /\ NewConstant(v)
    \/ \E k \in ProductKinds :
            /\ Len(kind) < Len(ProductShape)
            /\ ProductShape[Len(kind) + 1].k = "Binop"
            /\ NewBinop(k, ProductShape[Len(kind) + 1].l, ProductShape[Len(kind) + 1].r)
    \/ \E n \in Nodes, feed \in ProductFeeds :
            Len(kind) = Len(ProductShape) /\ calls < MaxProductCalls /\ Forward(n, feed)
    \/ \E n \in Nodes :
            Len(kind) = Len(ProductShape) /\ calls < MaxProductCalls /\ Backward(n)
    \/ \E n \in Nodes :
            Len(kind) = Len(ProductShape) /\ calls < MaxProductCalls
                /\ ClearGradRecursive(n)

SpecProduct == Init /\ [][NextProduct]_vars

\* Larger graphs, of Inputs under Add and Divide, and forward calls on them.
NextFeed ==
    \/ \E nm \in Names : Len(kind) < MaxFeedNodes /\ NewInput(nm)
    \/ \E k \in FeedKinds, l \in Nodes, r \in Nodes :
            Len(kind) < MaxFeedNodes /\ NewBinop(k, l, r)
    \/ \E n \in Nodes, feed \in Feeds : calls < MaxFeedCalls /\ Forward(n, feed)

SpecFeed == Init /\ [][NextFeed]_vars

\* ------------------------------------------------------ gradients by paths
\* the local derivative of node p with respect to its i-th child, at the
\* current values
LocalDerivative(p, i) ==
    Derivatives(p, [j \in 1..Len(children[p]) |-> value[children[p][j]]]).ds[i]

\* the sum, over all edge paths from r to m, of the product of the local
\* derivatives along the path
RECURSIVE PathGrad(_, _)
RECURSIVE EdgeSum(_, _, _, _)
EdgeSum(r, m, p, i) ==
    IF p > Len(kind) THEN I(0)
    ELSE IF i > Len(children[p]) THEN EdgeSum(r, m, p + 1, 1)
    ELSE IF children[p][i] = m /\ p \in Desc(r)
         THEN NAdd(NMul(PathGrad(r, p), LocalDerivative(p, i)), EdgeSum(r, m, p, i + 1))
         ELSE EdgeSum(r, m, p, i + 1)

PathGrad(r, m) == IF m = r THEN I(1) ELSE EdgeSum(r, m, 1, 1)

\* how many times e occurs in the sequence t
Count(t, e) == Cardinality({k \in 1..Len(t) : t[k] = e})

\* some node reachable from r is the child on more than one edge inside
\* the graph of r
Shared(r, m) ==
    /\ m \in Desc(r)
    /\ Cardinality({pi \in Desc(r) \X {1, 2} :
            pi[2] <= Len(children[pi[1]]) /\ children[pi[1]][pi[2]] = m}) > 1

\* ------------------------------------------------------------------- claims

\* C1: after a successful forward(feed) on a node, every node reachable from
\* it has its value: an Input feed[name], a Constant its fixed value, a Binop
\* its operator applied to the values of its (left, right) children; and
\* forward returns the value stored on the node it was called on.
C1_ForwardValues ==
    (last.op = "forward" /\ last.exc = "none") =>
        /\ \A m \in Desc(last.node) :
            CASE kind[m] = "Input" ->
                    name[m] \in DOMAIN last.feed /\ value[m] = I(last.feed[name[m]])
              [] kind[m] = "Constant" -> value[m] \in {I(v) : v \in ConstVals}
              [] OTHER ->
                    LET e == BinopEvaluate(kind[m], value[children[m][1]], value[children[m][2]])
                    IN e.exc = "none" /\ value[m] = e.val
        /\ last.ret = value[last.node]

\* a forward succeeded on a Subtract, Divide or Power node over an Input and
\* a Constant
C1_Witness ==
    /\ last.op = "forward" /\ last.exc = "none"
    /\ kind[last.node] \in {"Subtract", "Divide", "Power"}
    /\ \E a, b \in Desc(last.node) :
        /\ kind[a] = "Input" /\ kind[b] = "Constant"
        /\ children[last.node] = <<a, b>>
        /\ value[a] # value[b]

\* C2: after forward on a root and root.backward() started with all grads
\* unset, root.grad = 1 and every node reachable from the root has as grad the
\* sum over all edge paths from the root of the product of the local
\* derivatives, also when an interior node is shared.
C2_AllPathsGrad ==
    [][(/\ last.op = "forward" /\ last.exc = "none"
        /\ \A m \in Nodes : grad[m] = None
        /\ last'.op = "backward" /\ last'.node = last.node /\ last'.exc = "none")
       => (/\ grad'[last.node] = I(1)
           /\ \A m \in Desc(last.node) : grad'[m] = PathGrad(last.node, m))]_vars

\* C3: in one backward pass every reachable node that has children pushes its
\* grad to them exactly once, and only after every edge into it from a node
\* of the pass has added its contribution.
C3_PushOnceAfterParents ==
    (last.op = "backward" /\ last.exc = "none") =>
        \A m \in Desc(last.node) :
            Len(children[m]) > 0 =>
                /\ Count(last.trace, <<"push", m>>) = 1
                /\ \A k \in 1..Len(last.trace) :
                    last.trace[k] = <<"push", m>> =>
                        \A p \in Desc(last.node), i \in 1..2 :
                            (i <= Len(children[p]) /\ children[p][i] = m) =>
                                \E j \in 1..(k - 1) : last.trace[j] = <<"add", p, i>>

\* C4: for y = Add(x, x) over one Input x, after y.forward(feed) and
\* y.backward() started with all grads unset, x.grad = 2 and y.grad = 1.
C4_AddSelf ==
    \A y \in Nodes :
        (/\ last.op = "backward" /\ last.node = y /\ last.exc = "none" /\ last.fresh
         /\ kind[y] = "Add"
         /\ children[y][1] = children[y][2]
         /\ kind[children[y][1]] = "Input") =>
            /\ grad[children[y][1]] = I(2)
            /\ grad[y] = I(1)

\* backward has run on such a y, from unset grads
C4_Witness ==
    \E y \in Nodes :
        /\ last.op = "backward" /\ last.node = y /\ last.exc = "none" /\ last.fresh
        /\ kind[y] = "Add"
        /\ children[y][1] = children[y][2]
        /\ kind[children[y][1]] = "Input"
        /\ value[y] = I(6)

\* C5: during one forward(feed) each node reachable from the called node is
\* evaluated at most once.
C5_EvaluatedOnce ==
    last.op = "forward" => \A m \in Desc(last.node) : Count(last.trace, m) <= 1

\* C6 (as stated): after forward and backward on a root, then
\* root.clear_grad_recursive() and root.backward() again with no new forward,
\* every node reachable from the root has the grad the first backward left.
C6_Original ==
    memo.rerun =>
        /\ last.exc = "none"
        /\ \A m \in Desc(memo.node) : grad[m] = memo.g[m]

\* C6 (amended): the same, provided the first backward found the grad of
\* every node reachable from the root unset.
C6_RerunSameGrads ==
    (memo.rerun /\ memo.fresh) =>
        /\ last.exc = "none"
        /\ \A m \in Desc(memo.node) : grad[m] = memo.g[m]

\* a Multiply root over a shared child was passed, cleared and passed again
C6_Witness ==
    /\ memo.rerun /\ memo.fresh
    /\ kind[memo.node] = "Multiply"
    /\ \E m \in Desc(memo.node) : Shared(memo.node, m) /\ grad[m] # None /\ grad[m] # I(1)

C8_InfixBuilds ==
    last.op = "infix" =>
        LET op == last.trace[1]
            l == last.trace[2]
            r == last.trace[3]
            k == CASE op = "+" -> "Add"
                   [] op = "-" -> "Subtract"
                   [] op = "*" -> "Multiply"
                   [] op = "/" -> "Divide"
                   [] op = "**" -> "Power"
        IN /\ last.exc = "none"
           /\ last.node = Len(kind)
           /\ kind[last.node] = k
           /\ children[last.node] = <<l, r>>
           /\ Count(parents[l], last.node) = Count(<<l, r>>, l)
           /\ Count(parents[r], last.node) = Count(<<l, r>>, r)
           /\ value[last.node] = None /\ grad[last.node] = None

\* the names of the Inputs reachable from n
InputNames(n) == {name[m] : m \in {d \in Desc(n) : kind[d] = "Input"}}

\* feed without its entries for names outside S
Restrict(feed, S) == [nm \in DOMAIN feed \cap S |-> feed[nm]]

\* extra entries of the feed of the last forward changed nothing
ExtrasHarmless ==
    LET r == ForwardResult(last.node, Restrict(last.feed, InputNames(last.node)))
    IN /\ r.val = value /\ r.exc = last.exc /\ r.ret = last.ret
       /\ r.trace = last.trace /\ r.at = last.at

\* C9 (as stated): forward(feed) fails with the missing-input error whenever
\* the name of some reachable Input is absent from feed; when all are present
\* it raises no missing-input error, and entries of feed that no reachable
\* Input uses change no value.
C9_Original ==
    last.op = "forward" =>
        IF InputNames(last.node) \subseteq DOMAIN last.feed
        THEN last.exc # "KeyError" /\ ExtrasHarmless
        ELSE last.exc = "KeyError"

\* C9 (amended): with a name absent forward(feed) fails, with the
\* missing-input error unless a Divide or Power node reachable from the called
\* node raised ZeroDivisionError first; the rest as stated.
C9_MissingInput ==
    last.op = "forward" =>
        IF InputNames(last.node) \subseteq DOMAIN last.feed
        THEN last.exc # "KeyError" /\ ExtrasHarmless
        ELSE \/ last.exc = "KeyError"
             \/ /\ last.exc = "ZeroDivisionError"
                /\ \E m \in Desc(last.node) : kind[m] \in {"Divide", "Power"}

\* forward failed on a missing name after it had set the value of another
\* Input
C9_Witness ==
    /\ last.op = "forward" /\ last.exc = "KeyError"
    /\ Len(last.trace) > 0
    /\ \E m \in Desc(last.node) : kind[m] = "Input" /\ name[m] \in DOMAIN last.feed

\* C10: root.clear_grad_recursive() leaves grad unset on the root and on all
\* its descendants, changes no value, children or parents, and a second call
\* changes nothing.
C10_ClearFrame ==
    [][(last'.op = "clear" /\ last'.node \in Nodes)
       => /\ \A m \in Desc(last'.node) : grad'[m] = None
          /\ value' = value /\ children' = children /\ parents' = parents
          /\ (last.op = "clear" /\ last.node = last'.node) => grad' = grad]_vars

\* a root with a shared descendant was cleared of the grads a backward
\* pass had set
C10_Witness ==
    /\ last.op = "clear"
    /\ memo.node = last.node /\ memo.ok
    /\ \E m \in Desc(last.node) : Shared(last.node, m) /\ memo.g[m] # None /\ grad[m] = None
    /\ \A m \in Desc(last.node) : value[m] # None

\* the nodes from which d is reachable along children, d included
Anc(d) == {a \in Nodes : d \in Desc(a)}

\* C11: a forward that reaches a Divide node whose right operand evaluated to
\* 0 fails with ZeroDivisionError raised at that node: no forward succeeds
\* over such a node, a forward called on one whose descendants all evaluated
\* fails at it, and a forward that failed at a Divide node raised
\* ZeroDivisionError on a divisor 0 and changed the value neither of that node
\* nor of any of its ancestors.
C11_DivideByZero ==
    [][last'.op = "forward" =>
        /\ \A d \in Desc(last'.node) :
            (/\ kind[d] = "Divide"
             /\ Count(last'.trace, children[d][2]) > 0
             /\ IsZero(value'[children[d][2]])) => last'.exc # "none"
        /\ (/\ kind[last'.node] = "Divide"
            /\ \A m \in Desc(last'.node) \ {last'.node} : Count(last'.trace, m) > 0
            /\ IsZero(value'[children[last'.node][2]]))
           => (last'.exc = "ZeroDivisionError" /\ last'.at = last'.node)
        /\ \A d \in Nodes :
            (kind[d] = "Divide" /\ last'.exc # "none" /\ last'.at = d) =>
                /\ last'.exc = "ZeroDivisionError"
                /\ IsZero(value'[children[d][2]])
                /\ \A a \in Anc(d) : value'[a] = value[a]]_vars

\* a forward failed at a Divide node below the node it was called on; the
\* Divide node keeps the value of an earlier forward
C11_Witness ==
    /\ last.op = "forward" /\ last.exc = "ZeroDivisionError"
    /\ last.at \in Nodes /\ last.at # last.node
    /\ kind[last.at] = "Divide"
    /\ value[last.at] # None
    /\ IsZero(value[children[last.at][2]])

\* C12: a forward called again on the same node with the same feed leaves
\* every node with the value the first call left, and ends as the first call
\* did: it returns the same value, or raises the same error at the same node.
C12_ForwardTwice ==
    [][(/\ last.op = "forward"
        /\ last'.op = "forward" /\ last'.node = last.node /\ last'.feed = last.feed)
       => /\ value' = value
          /\ last'.ret = last.ret
          /\ last'.exc = last.exc /\ last'.at = last.at]_vars

\* a forward was repeated on a Multiply node and returned 9 with its Input at 3
C12_Witness ==
    /\ last.op = "forward" /\ last.again /\ last.exc = "none"
    /\ kind[last.node] = "Multiply"
    /\ kind[children[last.node][1]] = "Input"
    /\ value[children[last.node][1]] = I(3)
    /\ last.ret = I(9) /\ value[last.node] = I(9)

\* the sequence s followed by the sequence t
Concat(s, t) == [k \in 1..(Len(s) + Len(t)) |-> IF k <= Len(s) THEN s[k] ELSE t[k - Len(s)]]

\* C13: at all times, for all nodes p and c, c occurs in p.children as often
\* as p occurs in c.parents; add_child appends its arguments to children in
\* order, and a Binop just constructed has the children [left, right].
C13_ChildrenParents ==
    /\ [](\A q \in Nodes, c \in Nodes : Count(children[q], c) = Count(parents[c], q))
    /\ [][(last'.op = "add_child") =>
                (children' = [children EXCEPT ![last'.node] = Concat(@, last'.trace)])]_vars
    /\ [][(last'.op = "new" /\ Len(last'.trace) = 2) =>
                (children' = Append(children, last'.trace))]_vars

\* add_child gave a node that had children the same node twice more
C13_Witness ==
    /\ last.op = "add_child"
    /\ Len(last.trace) = 2 /\ last.trace[1] = last.trace[2]
    /\ Len(children[last.node]) > 2
    /\ Count(parents[last.trace[1]], last.node) > 1

\* the edges into m inside the graph of r: the pairs <<p, i>> with m the i-th
\* child of p
InEdges(r, m) ==
    {pi \in Desc(r) \X {1, 2} : pi[2] <= Len(children[pi[1]]) /\ children[pi[1]][pi[2]] = m}

\* m is a child of r on one edge, and no other edge of the graph of r enters m
OnlyChildEdge(r, m) ==
    Cardinality(InEdges(r, m)) = 1 /\ \A pi \in InEdges(r, m) : pi[1] = r

\* C14 (as stated): when root.backward() has succeeded and is called again
\* with no clear in between, it succeeds, root.grad stays 1, no grad of a
\* reachable node becomes unset, and a node whose only incoming edge is a
\* single edge from the root ends with twice the grad the first call left.
C14_Original ==
    [][(/\ last.op = "backward" /\ last.exc = "none"
        /\ last'.op = "backward" /\ last'.node = last.node)
       => /\ last'.exc = "none"
          /\ grad'[last.node] = I(1)
          /\ \A m \in Desc(last.node) :
                /\ grad'[m] # None
                /\ OnlyChildEdge(last.node, m) => grad'[m] = NMul(I(2), grad[m])]_vars

\* C14 (amended): the same, provided the first call found the grad of every
\* node reachable from the root unset.
C14_BackwardTwice ==
    [][(/\ last.op = "backward" /\ last.exc = "none" /\ last.fresh
        /\ last'.op = "backward" /\ last'.node = last.node)
       => /\ last'.exc = "none"
          /\ grad'[last.node] = I(1)
          /\ \A m \in Desc(last.node) :
                /\ grad'[m] # None
                /\ OnlyChildEdge(last.node, m) => grad'[m] = NMul(I(2), grad[m])]_vars

\* forward, backward and backward again were the three calls made, on a
\* Multiply root; a child on a single edge ends with grad 2 * 3
C14_Witness ==
    /\ calls = 3
    /\ last.op = "backward" /\ last.again /\ last.exc = "none"
    /\ kind[last.node] = "Multiply"
    /\ grad[last.node] = I(1)
    /\ \E m \in Desc(last.node) : OnlyChildEdge(last.node, m) /\ grad[m] = I(6)

\* every node that more than one edge of the graph of r enters is a leaf
OnlyLeavesShared(r) ==
    \A m \in Desc(r) : Cardinality(InEdges(r, m)) > 1 => kind[m] \in {"Input", "Constant"}

\* the graph is that of test_product, x * (x ** 2 + 1), and x is 3
IsTestProduct ==
    /\ Len(kind) = 6
    /\ kind = <<"Input", "Constant", "Power", "Constant", "Add", "Multiply">>
    /\ children = <<<<>>, <<>>, <<1, 2>>, <<>>, <<3, 4>>, <<1, 5>>>>
    /\ value[1] = I(3) /\ value[2] = I(2) /\ value[4] = I(1)

\* C15: when only leaves are shared in the graph of the root, a forward on
\* the root followed by a root.backward() that starts with all grads unset
\* and succeeds leaves on every reachable node the sum over all paths from the
\* root of the products of the local derivatives; for x * (x ** 2 + 1) at
\* x = 3 these are 28 for x, 3 for the sum, for x ** 2 and for the constant 1,
\* 1 for the product (and 27 ln 3 for the constant 2).
C15_LeafSharing ==
    [][(/\ last.op = "forward" /\ last.exc = "none"
        /\ \A m \in Desc(last.node) : grad[m] = None
        /\ OnlyLeavesShared(last.node)
        /\ last'.op = "backward" /\ last'.node = last.node /\ last'.exc = "none")
       => /\ \A m \in Desc(last.node) : grad'[m] = PathGrad(last.node, m)
          /\ (IsTestProduct /\ last.node = 6) =>
                grad' = <<I(28), Mk(0, 1, 0, 27), I(3), I(3), I(3), I(1)>>]_vars

\* test_product: forward and backward were called on the product
C15_Witness ==
    /\ IsTestProduct
    /\ last.op = "backward" /\ last.node = 6 /\ last.exc = "none" /\ last.fresh
    /\ value[6] = I(30) /\ value[5] = I(10) /\ value[3] = I(9)
    /\ grad[1] = I(28) /\ grad[6] = I(1) /\ grad[5] = I(3) /\ grad[3] = I(3)
    /\ grad[2] = PathGrad(6, 2)

\* the base of Power node q is 0 or negative
BaseNotPositive(q) == IsZero(value[children[q][1]]) \/ IsNeg(value[children[q][1]])

\* the backward pass that reached Power node q failed at q with a domain
\* error, before q pushed anything to its children
FailedAtPower(q) ==
    /\ last.exc \in {"ValueError", "ZeroDivisionError"}
    /\ last.at = q
    /\ Count(last.trace, <<"push", q>>) = 0
    /\ \A i \in 1..2 : Count(last.trace, <<"add", q, i>>) = 0

\* C16 (as stated): a backward pass that reaches a Power node whose base
\* value is <= 0 fails with a domain error raised at that node, before the
\* node has added anything to the grad of either of its children.
C16_Original ==
    last.op = "backward" =>
        \A q \in Nodes :
            (/\ kind[q] = "Power"
             /\ Count(last.trace, <<"visit", q>>) > 0
             /\ BaseNotPositive(q)) => FailedAtPower(q)

\* C16 (amended): this holds when the Power node has a value; on a Power
\* node with no value, backward fails with the backward-before-forward error
\* (RuntimeError), whatever the value of the base.
C16_PowerBase ==
    last.op = "backward" =>
        \A q \in Nodes :
            (/\ kind[q] = "Power"
             /\ Count(last.trace, <<"visit", q>>) > 0
             /\ BaseNotPositive(q))
            => IF value[q] = None
               THEN last.exc = "RuntimeError" /\ last.at = q /\ last.node = q
               ELSE FailedAtPower(q)

\* a backward called on a node above a Power node with a negative base
\* failed at the Power node, after the nodes above it had pushed their grads
C16_Witness ==
    /\ last.op = "backward" /\ last.exc = "ValueError"
    /\ last.at \in Nodes /\ last.at # last.node
    /\ kind[last.at] = "Power"
    /\ IsNeg(value[children[last.at][1]])
    /\ grad[last.at] # None
    /\ Count(last.trace, <<"push", last.node>>) = 1
    /\ Count(last.trace, <<"push", last.at>>) = 0

\* C17: forward changes no grad, and backward changes no value; neither
\* changes children or parents.  So a forward with another feed, after a
\* backward, overwrites values and leaves the grads in place.
C17_Frames ==
    [][/\ (last'.op = "forward") =>
            (grad' = grad /\ children' = children /\ parents' = parents)
       /\ (last'.op = "backward") =>
            (value' = value /\ children' = children /\ parents' = parents)]_vars

\* after a backward at x = 3 left grad 6 on the Input x of a Multiply(x, x),
\* a forward with x = 0 has set the values to 0; the grads are still there
C17_Witness ==
    /\ last.op = "forward" /\ last.exc = "none"
    /\ kind[last.node] = "Multiply"
    /\ children[last.node][1] = children[last.node][2]
    /\ kind[children[last.node][1]] = "Input"
    /\ value[children[last.node][1]] = I(0) /\ value[last.node] = I(0)
    /\ grad[children[last.node][1]] = I(6) /\ grad[last.node] = I(1)

\* the number of paths along children that start at n, the empty path
\* included
RECURSIVE PathCount(_)
RECURSIVE PathCountFrom(_, _)
PathCountFrom(cs, i) ==
    IF i > Len(cs) THEN 0 ELSE PathCount(cs[i]) + PathCountFrom(cs, i + 1)

PathCount(n) == 1 + PathCountFrom(children[n], 1)

\* 2 ** k
RECURSIVE Pow2(_)
Pow2(k) == IF k = 0 THEN 1 ELSE 2 * Pow2(k - 1)

\* C18: on the acyclic graphs the constructors build (every child is an
\* older node than its parent), each forward, backward and
\* clear_grad_recursive call ends, returning or raising, after a bounded
\* number of node visits: at most one per path from the node it is called on,
\* exactly that when it ends without an error, and so less than 2 ** (number
\* of reachable nodes) for nodes of at most two children.
C18_Terminates ==
    /\ \A q \in Nodes : \A i \in 1..Len(children[q]) : children[q][i] < q
    /\ last.op \in {"forward", "backward", "clear"} =>
        /\ last.exc \in {"none", "KeyError", "ZeroDivisionError", "ValueError", "RuntimeError"}
        /\ PathCount(last.node) < Pow2(Cardinality(Desc(last.node)))
        /\ last.op = "forward" =>
                /\ Len(last.trace) <= PathCount(last.node)
                /\ last.exc = "none" => Len(last.trace) = PathCount(last.node)
        /\ last.op = "backward" =>
                /\ Cardinality({k \in 1..Len(last.trace) : last.trace[k][1] = "visit"})
                        <= PathCount(last.node)
                /\ last.exc = "none" =>
                        Cardinality({k \in 1..Len(last.trace) : last.trace[k][1] = "visit"})
                            = PathCount(last.node)
        /\ last.op = "clear" => Len(last.trace) = PathCount(last.node)

\* clear_grad_recursive returned after 7 visits on a graph of 3 nodes
C18_Witness ==
    /\ last.op = "clear" /\ last.exc = "none"
    /\ Cardinality(Desc(last.node)) = 3
    /\ Len(last.trace) = 7

\* C19: one clear_grad_recursive() call visits every node reachable from the
\* node it is called on exactly once, shared nodes included.
C19_ClearVisitsOnce ==
    last.op = "clear" => \A m \in Desc(last.node) : Count(last.trace, m) = 1

====
